---- MODULE Spec2Model ----
(***************************************************************************)
(* server.py: a static file server on port 5500 that registers ".js" as    *)
(* application/javascript and then runs the standard library's             *)
(* SimpleHTTPRequestHandler through http.server.test.                      *)
(*                                                                         *)
(* server.py is fourteen lines; what its lines 6, 9 and 14 do is the       *)
(* behaviour of the library calls they make (CPython 3.11: mimetypes,      *)
(* http.server, socketserver, posixpath on a POSIX platform).  The         *)
(* operators below follow those library functions and keep their names.    *)
(*                                                                         *)
(* A file name is the sequence of its dot-separated components             *)
(* ("app.js" is <<"app","js">>), a path is a sequence of names, file       *)
(* contents and response bodies are sequences of bytes.                    *)
(***************************************************************************)
EXTENDS Integers, Sequences, FiniteSets, TLC

\* ------------------------------------------------------------------ bounds
\* Connections one server process holds open at a time.
MaxConns == 2
\* Last tick of the file-system clock (each write to a file takes one tick).
MaxTime == 2

\* ------------------------------------------------------- program constants
JsType == "application/javascript"
LocalhostLine == "Serving on http://localhost:5500 (Ctrl-C to stop)"
BannerLine == "Serving HTTP on :: port 5500 (http://[::]:5500/) ..."
InterruptLine == "Keyboard interrupt received, exiting."

Instances == {1, 2}
NoOwner == 0

\* ------------------------------------------------------------------- names
Pardir == <<"..">>
Curdir == <<".">>
Empty == <<"">>
NoExt == ""
NoType == ""

\* posixpath.splitext on the last name of a path: (base, ext); a name with a
\* single component has no extension.
splitext(name) ==
    IF Len(name) > 1
    THEN [base |-> SubSeq(name, 1, Len(name) - 1), ext |-> name[Len(name)]]
    ELSE [base |-> name, ext |-> NoExt]

\* str.lower on the extensions that occur.
lower(s) == CASE s = "JS" -> "js" [] s = "CSS" -> "css" [] s = "Z" -> "z" [] OTHER -> s

\* ------------------------------------------------------------ MIME tables
\* SimpleHTTPRequestHandler.extensions_map
extensions_map ==
    [e \in {"gz", "Z", "bz2", "xz"} |->
        CASE e = "gz" -> "application/gzip"
          [] e = "Z" -> "application/octet-stream"
          [] e = "bz2" -> "application/x-bzip2"
          [] e = "xz" -> "application/x-xz"]

\* mimetypes suffix_map and encodings_map
suffix_map ==
    [e \in {"svgz", "tgz", "taz", "tz", "tbz2", "txz"} |->
        CASE e = "svgz" -> <<"svg", "gz">>
          [] e \in {"tgz", "taz", "tz"} -> <<"tar", "gz">>
          [] e = "tbz2" -> <<"tar", "bz2">>
          [] e = "txz" -> <<"tar", "xz">>]

encodings_map == {"gz", "Z", "bz2", "xz", "br"}

\* The extensions the type registry can hold, and what a platform may map ".js"
\* to before server.py runs (NoType: unmapped).
TypeExts == {"js", "css", "html", "txt", "tar"}
PlatformJs == {NoType, "text/javascript", "application/javascript", "application/x-javascript"}

\* mimetypes.init: the registry as the platform defines it.
init(pjs) ==
    [e \in TypeExts |->
        CASE e = "js" -> pjs
          [] e = "css" -> "text/css"
          [] e = "html" -> "text/html"
          [] e = "txt" -> "text/plain"
          [] e = "tar" -> "application/x-tar"]

\* The registry before mimetypes.init has run (_db is None).
NoDb == [e \in TypeExts |-> "uninitialised"]

\* _db as add_type and guess_type see it: init() runs first when _db is None.
loaded(d, pjs) == IF d = NoDb THEN init(pjs) ELSE d

\* MimeTypes.guess_type(path), strict: the type or NoType.
RECURSIVE apply_suffix_map(_)
apply_suffix_map(name) ==
    LET s == splitext(name) IN
    IF lower(s.ext) \in DOMAIN suffix_map
    THEN apply_suffix_map(s.base \o suffix_map[lower(s.ext)])
    ELSE name

mimetypes_guess_type(d, name) ==
    LET n1 == apply_suffix_map(name)
        s1 == splitext(n1)
        s2 == IF s1.ext \in encodings_map THEN splitext(s1.base) ELSE s1
        ext == lower(s2.ext)
    IN  IF ext \in DOMAIN d THEN d[ext] ELSE NoType

\* SimpleHTTPRequestHandler.guess_type(path)
guess_type(d, name) ==
    LET ext == splitext(name).ext IN
    IF ext \in DOMAIN extensions_map THEN extensions_map[ext]
    ELSE IF lower(ext) \in DOMAIN extensions_map THEN extensions_map[lower(ext)]
    ELSE LET guess == mimetypes_guess_type(d, name) IN
         IF guess # NoType THEN guess ELSE "application/octet-stream"

\* Faulty variants of add_type: one that leaves the registry as it was, one
\* that overwrites every entry.
add_type_noop(d, type, ext) == d
add_type_all(d, type, ext) == [e \in DOMAIN d |-> type]

\* mimetypes.add_type(type, ext): the registry with ext mapped to type.
add_type(d, type, ext) == [d EXCEPT ![ext] = type]

\* ------------------------------------------------------------------- paths
\* posixpath.normpath on the components of a request path.
RECURSIVE normcomps(_, _, _)
normcomps(comps, acc, abs) ==
    IF comps = <<>> THEN acc
    ELSE LET c == Head(comps)
             rest == Tail(comps)
         IN  IF c = Empty \/ c = Curdir THEN normcomps(rest, acc, abs)
             ELSE IF c # Pardir
                     \/ (~abs /\ acc = <<>>)
                     \/ (acc # <<>> /\ acc[Len(acc)] = Pardir)
                  THEN normcomps(rest, Append(acc, c), abs)
             ELSE IF acc # <<>>
                  THEN normcomps(rest, SubSeq(acc, 1, Len(acc) - 1), abs)
             ELSE normcomps(rest, acc, abs)

normpath(p) == normcomps(p.segs, <<>>, p.abs)

\* os.getcwd(): the served root.
directory == << <<"www">> >>

\* Faulty variant of IsSimpleName: ".." and "." pass as file names.
IsSimpleName_any(w) == TRUE

IsSimpleName(w) == w \notin {Curdir, Pardir}

\* SimpleHTTPRequestHandler.translate_path: the local path and whether the
\* request path ended with "/".
translate_path(p) ==
    [path |-> directory \o SelectSeq(normpath(p), IsSimpleName), slash |-> p.slash]

IsPrefix(s, t) == Len(s) <= Len(t) /\ SubSeq(t, 1, Len(s)) = s
InsideRoot(path) == IsPrefix(directory, path)

\* ------------------------------------------------------------- file system
File(data, mtime, readable) ==
    [kind |-> "file", data |-> data, mtime |-> mtime, readable |-> readable, target |-> <<>>]
Dir == [kind |-> "dir", data |-> <<>>, mtime |-> 0, readable |-> TRUE, target |-> <<>>]
Link(target) == [kind |-> "link", data |-> <<>>, mtime |-> 0, readable |-> TRUE, target |-> target]
Absent == [kind |-> "none", data |-> <<>>, mtime |-> 0, readable |-> FALSE, target |-> <<>>]

InRoot(name) == directory \o <<name>>
SecretPath == << <<"secret", "txt">> >>
AppJs == InRoot(<<"app", "js">>)
NewCss == InRoot(<<"new", "css">>)
SubDir == InRoot(<<"sub">>)

\* The files a run starts with: the served root /www, one file beside it
\* (/secret.txt), and inside the root a symbolic link to that file.
RootFiles ==
    { InRoot(<<"index", "html">>), AppJs, InRoot(<<"B", "JS">>),
      InRoot(<<"lib", "js", "br">>), InRoot(<<"pkg", "js", "gz">>),
      InRoot(<<"style", "css">>), InRoot(<<"notes">>), InRoot(<<"locked", "js">>) }
FsPaths ==
    {SecretPath, directory, SubDir, SubDir \o << <<"util", "js">> >>,
     InRoot(<<"link", "js">>), NewCss} \cup RootFiles

InitFs ==
    [p \in FsPaths |->
        CASE p = SecretPath -> File(<<83>>, 0, TRUE)
          [] p \in {directory, SubDir} -> Dir
          [] p = InRoot(<<"link", "js">>) -> Link(SecretPath)
          [] p = InRoot(<<"locked", "js">>) -> File(<<120>>, 0, FALSE)
          [] p = NewCss -> Absent
          [] p = InRoot(<<"index", "html">>) -> File(<<60, 62>>, 0, TRUE)
          [] OTHER -> File(<<99>>, 0, TRUE)]

\* The files the environment writes and deletes while the server runs, and
\* what it writes.
MutablePaths == {AppJs, NewCss}
Contents == {<<99>>, <<99, 49>>}

\* The operating system's walk along a path: ".." steps back to the parent
\* (the parent of "/" is "/"), "." and an empty component stay in place.
RECURSIVE oswalk(_, _)
oswalk(comps, acc) ==
    IF comps = <<>> THEN acc
    ELSE IF Head(comps) = Pardir
         THEN oswalk(Tail(comps), IF acc = <<>> THEN acc ELSE SubSeq(acc, 1, Len(acc) - 1))
    ELSE IF Head(comps) \in {Curdir, Empty} THEN oswalk(Tail(comps), acc)
    ELSE oswalk(Tail(comps), Append(acc, Head(comps)))

Lookup(f, p) == IF oswalk(p, <<>>) \in DOMAIN f THEN f[oswalk(p, <<>>)] ELSE Absent

\* The file a path names once a symbolic link at its end is followed.
realpath(f, p) == IF Lookup(f, p).kind = "link" THEN Lookup(f, p).target ELSE oswalk(p, <<>>)

isdir(f, p) == Lookup(f, realpath(f, p)).kind = "dir"
isfile(f, p) == Lookup(f, realpath(f, p)).kind = "file"

\* open(path, 'rb') succeeds: a readable regular file.
CanOpen(f, p) == isfile(f, p) /\ Lookup(f, realpath(f, p)).readable

\* os.listdir(path)
listdir(f, p) ==
    { q[Len(q)] : q \in { r \in DOMAIN f : Len(r) = Len(p) + 1 /\ IsPrefix(p, r)
                                          /\ f[r].kind # "none" } }

\* ---------------------------------------------------------------- requests
\* No If-Modified-Since header; a header carries its time as <<t>>.
NoIms == <<>>
Req(command, abs, segs, slash, ims) ==
    [command |-> command, path |-> [abs |-> abs, segs |-> segs, slash |-> slash], ims |-> ims]
Get(segs) == Req("GET", TRUE, segs, FALSE, NoIms)

GetAppJs == Get(<< <<"app", "js">> >>)
GetNope == Get(<< <<"nope", "js">> >>)
GetRelativeSecret == Req("GET", FALSE, <<Pardir, <<"secret", "txt">> >>, FALSE, NoIms)

\* What the clients of the model send.
Requests ==
    { GetAppJs, GetNope, GetRelativeSecret,
      Req("GET", TRUE, << <<"app", "js">> >>, FALSE, <<1>>),
      Req("HEAD", TRUE, << <<"app", "js">> >>, FALSE, NoIms),
      Req("GET", TRUE, << <<"app", "js">> >>, TRUE, NoIms),
      Get(<< <<"B", "JS">> >>), Get(<< <<"lib", "js", "br">> >>),
      Get(<< <<"pkg", "js", "gz">> >>), Get(<< <<"style", "css">> >>),
      Get(<< <<"new", "css">> >>), Get(<< <<"notes">> >>),
      Get(<< <<"locked", "js">> >>), Get(<< <<"link", "js">> >>),
      Get(<< <<"sub">>, Pardir, Pardir, <<"secret", "txt">> >>),
      Get(<< <<"sub">>, <<"util", "js">> >>),
      Get(<< <<"sub">>, Pardir, <<"style", "css">> >>),
      Get(<< <<"sub">> >>),
      Req("GET", TRUE, << <<"sub">> >>, TRUE, NoIms),
      Req("GET", TRUE, <<>>, TRUE, NoIms) }

\* ---------------------------------------------------------------- handler
ErrorPage == <<60, 33>>
NoResp == [status |-> 0, ctype |-> NoType, body |-> <<>>, listing |-> {}, opened |-> <<>>]

Response(status, ctype, body, listing, opened) ==
    [status |-> status, ctype |-> ctype, body |-> body, listing |-> listing, opened |-> opened]

\* Faulty variant of send_error: every error is reported as 500.
send_error_500(req, code) ==
    Response(500, "text/html;charset=utf-8",
             IF req.command = "HEAD" THEN <<>> ELSE ErrorPage, {}, <<>>)

\* BaseHTTPRequestHandler.send_error
send_error(req, code) ==
    Response(code, "text/html;charset=utf-8",
             IF req.command = "HEAD" THEN <<>> ELSE ErrorPage, {}, <<>>)

\* SimpleHTTPRequestHandler.list_directory, then copyfile for a GET
list_directory(f, req, p) ==
    IF ~Lookup(f, realpath(f, p)).readable THEN send_error(req, 404)
    ELSE Response(200, "text/html; charset=utf-8", <<>>,
                  IF req.command = "HEAD" THEN {} ELSE listdir(f, realpath(f, p)),
                  realpath(f, p))

\* Faulty variant of serve_file: the copy stops after the first byte.
serve_file_truncated(f, d, req, tp) ==
    LET ctype == guess_type(d, tp.path[Len(tp.path)])
        node == Lookup(f, realpath(f, tp.path))
    IN  IF tp.slash THEN send_error(req, 404)
        ELSE IF ~CanOpen(f, tp.path) THEN send_error(req, 404)
        ELSE IF req.ims # NoIms /\ node.mtime <= req.ims[1]
             THEN Response(304, NoType, <<>>, {}, realpath(f, tp.path))
        ELSE Response(200, ctype,
                      IF req.command = "HEAD" THEN <<>> ELSE SubSeq(node.data, 1, 1), {},
                      realpath(f, tp.path))

\* send_head from guess_type on, then copyfile for a GET: the regular file
\* at tp.path.
serve_file(f, d, req, tp) ==
    LET ctype == guess_type(d, tp.path[Len(tp.path)])
        node == Lookup(f, realpath(f, tp.path))
    IN  IF tp.slash THEN send_error(req, 404)
        ELSE IF ~CanOpen(f, tp.path) THEN send_error(req, 404)
        ELSE IF req.ims # NoIms /\ node.mtime <= req.ims[1]
             THEN Response(304, NoType, <<>>, {}, realpath(f, tp.path))
        ELSE Response(200, ctype,
                      IF req.command = "HEAD" THEN <<>> ELSE node.data, {},
                      realpath(f, tp.path))

IndexNames == << <<"index", "html">>, <<"index", "htm">> >>

\* SimpleHTTPRequestHandler.send_head and do_GET / do_HEAD
do_GET(f, d, req) ==
    LET tp == translate_path(req.path)
        found == SelectSeq(IndexNames, LAMBDA n : isfile(f, tp.path \o <<n>>))
    IN  IF isdir(f, tp.path)
        THEN IF ~req.path.slash
             THEN Response(301, NoType, <<>>, {}, <<>>)
             ELSE IF found # <<>>
                  THEN serve_file(f, d, req, [path |-> tp.path \o <<Head(found)>>, slash |-> FALSE])
                  ELSE list_directory(f, req, tp.path)
        ELSE serve_file(f, d, req, tp)

\* ------------------------------------------------------------------- state
VARIABLES
    platform,   \* what the platform maps ".js" to
    db,         \* per process: the mimetypes registry (_db)
    writes,     \* per process: how many times add_type has written the registry
    pc,         \* per process: where the run of server.py stands
    stdout,     \* per process: the lines printed
    exit,       \* per process: how the process ended
    binds,      \* per process: how many times it tried to bind the port
    owner,      \* the process listening on the port, or NoOwner
    conns,      \* per process: the connections its handler threads hold
    fs,         \* the file system
    now         \* the file-system clock

vars == <<platform, db, writes, pc, stdout, exit, binds, owner, conns, fs, now>>

NoSnapshot == [p \in FsPaths |-> Absent]

Accepted(r) == [req |-> r, phase |-> "accepted", resp |-> NoResp, at |-> NoSnapshot]
\* A connection whose request was answered; "at" records the file system the
\* handler ran against.
Answered(r, resp, f) == [req |-> r, phase |-> "answered", resp |-> resp, at |-> f]

Init ==
    /\ platform \in PlatformJs
    /\ db = [i \in Instances |-> NoDb]
    /\ writes = [i \in Instances |-> 0]
    /\ pc = [i \in Instances |-> "start"]
    /\ stdout = [i \in Instances |-> <<>>]
    /\ exit = [i \in Instances |-> "running"]
    /\ binds = [i \in Instances |-> 0]
    /\ owner = NoOwner
    /\ conns = [i \in Instances |-> {}]
    /\ fs = InitFs
    /\ now = 0

\* Faulty variant of Register: the add_type call is missing.
Register_skip(i) ==
    /\ pc[i] = "start"
    /\ pc' = [pc EXCEPT ![i] = "registered"]
    /\ UNCHANGED <<platform, db, writes, stdout, exit, binds, owner, conns, fs, now>>

\* Lines 2-9: the imports, mimetypes.add_type('application/javascript', '.js')
\* and the choice of the handler class.
Register(i) ==
    /\ pc[i] = "start"
    /\ db' = [db EXCEPT ![i] = add_type(loaded(db[i], platform), JsType, "js")]
    /\ writes' = [writes EXCEPT ![i] = @ + 1]
    /\ pc' = [pc EXCEPT ![i] = "registered"]
    /\ UNCHANGED <<platform, stdout, exit, binds, owner, conns, fs, now>>

\* Faulty variant of Announce: nothing is printed.
Announce_silent(i) ==
    /\ pc[i] = "registered"
    /\ pc' = [pc EXCEPT ![i] = "announced"]
    /\ UNCHANGED <<platform, db, writes, stdout, exit, binds, owner, conns, fs, now>>

\* Lines 11-13: print the startup line.
Announce(i) ==
    /\ pc[i] = "registered"
    /\ stdout' = [stdout EXCEPT ![i] = Append(@, LocalhostLine)]
    /\ pc' = [pc EXCEPT ![i] = "announced"]
    /\ UNCHANGED <<platform, db, writes, exit, binds, owner, conns, fs, now>>

\* Faulty variant of Bind: the port is taken over from the process that
\* listens on it.
Bind_reuse(i) ==
    /\ pc[i] = "announced"
    /\ binds' = [binds EXCEPT ![i] = @ + 1]
    /\ owner' = i
    /\ pc' = [pc EXCEPT ![i] = "bound"]
    /\ UNCHANGED <<platform, db, writes, stdout, exit, conns, fs, now>>

\* Line 14, http.server.test: ServerClass(addr, HandlerClass) binds and listens
\* on the port; the bind raises OSError (address in use) when another process
\* listens there, and nothing catches it.
Bind(i) ==
    /\ pc[i] = "announced"
    /\ binds' = [binds EXCEPT ![i] = @ + 1]
    /\ IF owner = NoOwner
       THEN /\ owner' = i
            /\ pc' = [pc EXCEPT ![i] = "bound"]
            /\ exit' = exit
       ELSE /\ owner' = owner
            /\ pc' = [pc EXCEPT ![i] = "failed"]
            /\ exit' = [exit EXCEPT ![i] = "OSError"]
    /\ UNCHANGED <<platform, db, writes, stdout, conns, fs, now>>

\* Line 14, http.server.test: print the banner and enter serve_forever.
Banner(i) ==
    /\ pc[i] = "bound"
    /\ stdout' = [stdout EXCEPT ![i] = Append(@, BannerLine)]
    /\ pc' = [pc EXCEPT ![i] = "serving"]
    /\ UNCHANGED <<platform, db, writes, exit, binds, owner, conns, fs, now>>

\* serve_forever: accept a connection and start its handler thread.
Accept(i, r) ==
    /\ pc[i] = "serving"
    /\ owner = i
    /\ Cardinality(conns[i]) < MaxConns
    /\ Accepted(r) \notin conns[i]
    /\ conns' = [conns EXCEPT ![i] = @ \cup {Accepted(r)}]
    /\ UNCHANGED <<platform, db, writes, pc, stdout, exit, binds, owner, fs, now>>

\* Faulty variant of Serve: the files are served as they were at startup.
Serve_cached(i, r) == do_GET(InitFs, loaded(db[i], platform), r)

\* What the handler answers to request r.
Serve(i, r) == do_GET(fs, loaded(db[i], platform), r)

\* Faulty variant of Handle: an error response ends the server process.
Handle_crash(i, c) ==
    /\ pc[i] = "serving"
    /\ c \in conns[i]
    /\ c.phase = "accepted"
    /\ db' = [db EXCEPT ![i] = loaded(@, platform)]
    /\ IF do_GET(fs, loaded(db[i], platform), c.req).status = 404
       THEN /\ conns' = [conns EXCEPT ![i] = {}]
            /\ pc' = [pc EXCEPT ![i] = "exited"]
            /\ exit' = [exit EXCEPT ![i] = "error"]
            /\ owner' = NoOwner
       ELSE /\ conns' = [conns EXCEPT ![i] =
                           (@ \ {c}) \cup {Answered(c.req, do_GET(fs, loaded(db[i], platform), c.req), fs)}]
            /\ UNCHANGED <<pc, exit, owner>>
    /\ UNCHANGED <<platform, writes, stdout, binds, fs, now>>

\* A handler thread: parse the request, run do_GET / do_HEAD, write the
\* response.  guess_type reads the registry (and would initialise it).
Handle(i, c) ==
    /\ pc[i] = "serving"
    /\ c \in conns[i]
    /\ c.phase = "accepted"
    /\ conns' = [conns EXCEPT ![i] = (@ \ {c}) \cup {Answered(c.req, Serve(i, c.req), fs)}]
    /\ db' = [db EXCEPT ![i] = loaded(@, platform)]
    /\ UNCHANGED <<platform, writes, pc, stdout, exit, binds, owner, fs, now>>

\* The handler thread closes its connection and ends.
Finish(i, c) ==
    /\ pc[i] = "serving"
    /\ c \in conns[i]
    /\ c.phase = "answered"
    /\ conns' = [conns EXCEPT ![i] = @ \ {c}]
    /\ UNCHANGED <<platform, db, writes, pc, stdout, exit, binds, owner, fs, now>>

\* SIGINT.  Inside serve_forever http.server.test catches KeyboardInterrupt,
\* prints a line and calls sys.exit(0); anywhere else the exception ends the
\* process.  The listening socket is closed and the daemon handler threads
\* end with the process.
Interrupt(i) ==
    /\ pc[i] \in {"start", "registered", "announced", "bound", "serving"}
    /\ pc' = [pc EXCEPT ![i] = "exited"]
    /\ stdout' = [stdout EXCEPT ![i] = IF pc[i] = "serving" THEN Append(@, InterruptLine) ELSE @]
    /\ exit' = [exit EXCEPT ![i] = IF pc[i] = "serving" THEN "0" ELSE "KeyboardInterrupt"]
    /\ owner' = IF owner = i THEN NoOwner ELSE owner
    /\ conns' = [conns EXCEPT ![i] = {}]
    /\ UNCHANGED <<platform, db, writes, binds, fs, now>>

\* The environment writes a file of the served root (creating it if absent).
WriteFile(p, data) ==
    /\ now < MaxTime
    /\ now' = now + 1
    /\ fs' = [fs EXCEPT ![p] = File(data, now + 1, TRUE)]
    /\ UNCHANGED <<platform, db, writes, pc, stdout, exit, binds, owner, conns>>

\* The environment deletes a file of the served root.
DeleteFile(p) ==
    /\ fs[p].kind = "file"
    /\ fs' = [fs EXCEPT ![p] = Absent]
    /\ UNCHANGED <<platform, db, writes, pc, stdout, exit, binds, owner, conns, now>>

\* ---------------------------------------------------------- specifications
\* Two runs of server.py on one machine with its files left alone.
LifeRequests == {GetAppJs, GetNope, GetRelativeSecret}

Next ==
    \E i \in Instances :
        \/ Register(i)
        \/ Announce(i)
        \/ Bind(i)
        \/ Banner(i)
        \/ \E r \in LifeRequests : Accept(i, r)
        \/ \E c \in conns[i] : Handle(i, c)
        \/ \E c \in conns[i] : Finish(i, c)
        \/ Interrupt(i)

Spec == Init /\ [][Next]_vars

\* One run of server.py, a client that sends one request at a time, and an
\* environment that writes and deletes files of the served root.
AcceptNext(r) == conns[1] = {} /\ Accept(1, r)

NextFiles ==
    \/ Register(1)
    \/ Announce(1)
    \/ Bind(1)
    \/ Banner(1)
    \/ \E r \in Requests : AcceptNext(r)
    \/ \E c \in conns[1] : Handle(1, c)
    \/ \E c \in conns[1] : Finish(1, c)
    \/ Interrupt(1)
    \/ \E p \in MutablePaths, data \in Contents : WriteFile(p, data)
    \/ \E p \in MutablePaths : DeleteFile(p)

SpecFiles == Init /\ [][NextFiles]_vars

TypeOK ==
    /\ platform \in PlatformJs
    /\ owner \in Instances \cup {NoOwner}
    /\ now \in 0..MaxTime
    /\ \A i \in Instances : Cardinality(conns[i]) <= MaxConns

\* ------------------------------------------------------------ properties
AnsweredConns == UNION {{c \in conns[i] : c.phase = "answered"} : i \in Instances}

\* A request path that names a file of the served root directly: absolute,
\* made of plain names, without a trailing "/".
IsPlain(r) ==
    /\ r.path.abs
    /\ ~r.path.slash
    /\ r.path.segs # <<>>
    /\ \A k \in 1..Len(r.path.segs) : r.path.segs[k] \notin {Pardir, Curdir, Empty}
Target(r) == directory \o r.path.segs
LastName(r) == r.path.segs[Len(r.path.segs)]
IsPlainGet(r) == r.command = "GET" /\ IsPlain(r)

\* The node a connection's request named when the handler ran.
NodeAt(c) == IF Target(c.req) \in DOMAIN c.at THEN c.at[Target(c.req)] ELSE Absent
\* The request carries an If-Modified-Since time no older than the file.
NotModified(c) == c.req.ims # NoIms /\ NodeAt(c).mtime <= c.req.ims[1]
HasJsExtension(name) == Len(name) > 1 /\ name[Len(name)] = "js"

\* C1 as stated: every GET for a regular file with extension .js is answered
\* 200 with Content-Type application/javascript, whatever the platform mapped
\* .js to.
C1_EveryJsGetIs200Javascript ==
    \A c \in AnsweredConns :
        (IsPlainGet(c.req) /\ HasJsExtension(LastName(c.req)) /\ NodeAt(c).kind = "file")
            => (c.resp.status = 200 /\ c.resp.ctype = JsType)

\* C1 amended: every GET for a readable regular file with extension .js, not
\* answered 304 on its If-Modified-Since header, is answered 200 with
\* Content-Type exactly application/javascript, whatever the platform mapped
\* .js to.
C1_ReadableJsGetIs200Javascript ==
    \A c \in AnsweredConns :
        (/\ IsPlainGet(c.req)
         /\ HasJsExtension(LastName(c.req))
         /\ NodeAt(c).kind = "file"
         /\ NodeAt(c).readable
         /\ ~NotModified(c))
            => (c.resp.status = 200 /\ c.resp.ctype = JsType)

C1_Witness ==
    \E c \in AnsweredConns :
        /\ platform = "text/javascript"
        /\ c.req = GetAppJs
        /\ NodeAt(c).kind = "file"
        /\ c.resp.status = 200
        /\ c.resp.ctype = JsType

\* The name's type lookup ends at the .js entry of the registry: its extension
\* is .js in some letter case, possibly followed by the encoding suffix .br.
LooksUpJs(name) ==
    \/ Len(name) > 1 /\ lower(name[Len(name)]) = "js"
    \/ Len(name) > 2 /\ name[Len(name)] = "br" /\ lower(name[Len(name) - 1]) = "js"

\* C3 as stated: registration changes only the .js entry, and a file with any
\* extension other than .js is served with the Content-Type the platform
\* mapping assigned before registration.
C3_OtherExtensionsKeepPlatformType ==
    /\ \A i \in Instances : \A e \in TypeExts \ {"js"} :
          db[i] # NoDb => db[i][e] = init(platform)[e]
    /\ \A c \in AnsweredConns :
          (IsPlainGet(c.req) /\ ~HasJsExtension(LastName(c.req)) /\ c.resp.status = 200
             /\ NodeAt(c).kind = "file")
              => c.resp.ctype = guess_type(init(platform), LastName(c.req))

\* C3 amended: registration changes only the .js entry, and a file whose type
\* lookup does not end at the .js entry (its extension is not .js in any letter
\* case, and it is not a .js name followed by .br) is served with the
\* Content-Type the platform mapping assigned before registration.
C3_NamesNotLookedUpAsJsKeepPlatformType ==
    /\ \A i \in Instances : \A e \in TypeExts \ {"js"} :
          db[i] # NoDb => db[i][e] = init(platform)[e]
    /\ \A c \in AnsweredConns :
          (IsPlainGet(c.req) /\ ~LooksUpJs(LastName(c.req)) /\ c.resp.status = 200
             /\ NodeAt(c).kind = "file")
              => c.resp.ctype = guess_type(init(platform), LastName(c.req))

C3_Witness ==
    \E c \in AnsweredConns :
        /\ platform = "text/javascript"
        /\ c.req = Get(<< <<"style", "css">> >>)
        /\ c.resp.status = 200
        /\ c.resp.ctype = "text/css"
        /\ db[1]["js"] = JsType

\* C4 as stated: every GET whose path names an existing regular file is
\* answered 200 with the file's bytes.
C4_EveryFileGetIs200WithContents ==
    \A c \in AnsweredConns :
        (IsPlainGet(c.req) /\ NodeAt(c).kind = "file")
            => (c.resp.status = 200 /\ c.resp.body = NodeAt(c).data)

\* C4 amended: every GET whose path names an existing readable regular file,
\* not answered 304 on its If-Modified-Since header, is answered 200 with a
\* body identical to the file's bytes.
C4_ReadableFileGetIs200WithContents ==
    \A c \in AnsweredConns :
        (IsPlainGet(c.req) /\ NodeAt(c).kind = "file" /\ NodeAt(c).readable /\ ~NotModified(c))
            => (c.resp.status = 200 /\ c.resp.body = NodeAt(c).data)

C4_Witness ==
    \E c \in AnsweredConns :
        /\ IsPlainGet(c.req)
        /\ NodeAt(c).kind = "file"
        /\ Len(NodeAt(c).data) = 2
        /\ c.resp.status = 200
        /\ c.resp.body = NodeAt(c).data

\* C5: a GET whose path names nothing under the served root, or a file that
\* cannot be read, is answered 404, and the process that answered it is still
\* serving on the port.
C5_MissingOrUnreadableIs404 ==
    \A i \in Instances : \A c \in conns[i] :
        /\ (/\ c.phase = "answered"
            /\ IsPlainGet(c.req)
            /\ (NodeAt(c).kind = "none" \/ (NodeAt(c).kind = "file" /\ ~NodeAt(c).readable)))
               => c.resp.status = 404
        /\ (c.phase = "answered" /\ c.resp.status = 404)
               => (pc[i] = "serving" /\ owner = i)

C5_Witness ==
    /\ \E c \in AnsweredConns : c.req = GetNope /\ c.resp.status = 404
    /\ pc[1] = "serving"

\* C7 as stated: whatever the request path, the file or directory the server
\* reads for the response lies inside the served root.
C7_ReadsOnlyInsideRoot ==
    \A c \in AnsweredConns : c.resp.opened # <<>> => InsideRoot(c.resp.opened)

\* C7 amended: whatever the request path, ".." segments included, the file or
\* directory the server reads lies inside the served root, unless the request
\* names a symbolic link inside the served root, in which case the link's
\* target is read.
C7_ReadsInsideRootOrThroughLink ==
    \A c \in AnsweredConns :
        c.resp.opened # <<>> =>
            \/ InsideRoot(c.resp.opened)
            \/ /\ IsPlain(c.req)
               /\ NodeAt(c).kind = "link"
               /\ NodeAt(c).target = c.resp.opened

C7_Witness ==
    \E c \in AnsweredConns :
        /\ \E k \in 1..Len(c.req.path.segs) : c.req.path.segs[k] = Pardir
        /\ c.resp.status = 200
        /\ InsideRoot(c.resp.opened)

Live == {"start", "registered", "announced", "bound", "serving"}

\* C2: add_type writes the registry once, before the process listens on the
\* port, and from then on no step changes the registry, however the requests
\* of the handler threads interleave.
C2_RegistryWrittenOnceBeforeListening ==
    [][\A i \in Instances :
          /\ writes'[i] <= 1
          /\ (pc'[i] \in Live \ {"start"}) => (writes'[i] = 1 /\ db'[i]["js"] = JsType)
          /\ owner' = i => writes'[i] = 1
          /\ pc[i] # "start" => (db'[i] = db[i] /\ writes'[i] = writes[i])]_vars

C2_Witness ==
    \E i \in Instances :
        /\ pc[i] = "serving"
        /\ writes[i] = 1
        /\ Cardinality({c \in conns[i] : c.phase = "answered"}) = 2

\* C6: a process that binds while another process listens on the port fails
\* with the address-in-use error: it never serves, holds no connection, does
\* not bind again, and the listening process is left as it was.
C6_SecondInstanceFailsToBind ==
    [][\A i \in Instances :
          /\ (pc[i] = "announced" /\ owner # NoOwner /\ pc'[i] # "announced") =>
                /\ pc'[i] \in {"failed", "exited"}
                /\ pc'[i] = "failed" => exit'[i] = "OSError"
                /\ owner' = owner
                /\ pc'[owner] = pc[owner]
                /\ conns'[owner] = conns[owner]
          /\ pc[i] = "failed" =>
                (pc'[i] = "failed" /\ binds'[i] = binds[i] /\ conns'[i] = {} /\ owner' # i)
          /\ binds'[i] <= 1]_vars

C6_Witness ==
    \E i, j \in Instances :
        /\ pc[j] = "failed"
        /\ exit[j] = "OSError"
        /\ binds[j] = 1
        /\ pc[i] = "serving"
        /\ owner = i
        /\ \E c \in conns[i] : c.phase = "answered"

CountLines(out, line) == Cardinality({k \in 1..Len(out) : out[k] = line})

\* C8: a process that listens or serves has printed the line announcing
\* http://localhost:5500 exactly once, as its first line of output.
C8_StartupLineBeforeServing ==
    \A i \in Instances :
        (pc[i] \in {"bound", "serving"} \/ owner = i) =>
            /\ stdout[i] # <<>>
            /\ stdout[i][1] = LocalhostLine
            /\ CountLines(stdout[i], LocalhostLine) = 1

C8_Witness ==
    \E i \in Instances : pc[i] = "serving" /\ stdout[i] = <<LocalhostLine, BannerLine>>

\* C9: a serving process keeps serving on the port over every step but an
\* interrupt; the interrupt ends it with exit status 0, and an ended process
\* holds no connection and never listens again.
C9_ServesUntilInterrupted ==
    [][\A i \in Instances :
          /\ pc[i] = "serving" =>
                \/ pc'[i] = "serving" /\ owner' = i
                \/ /\ pc'[i] = "exited"
                   /\ exit'[i] = "0"
                   /\ stdout'[i] = Append(stdout[i], InterruptLine)
                   /\ conns'[i] = {}
                   /\ owner' # i
          /\ pc[i] = "exited" => (pc'[i] = "exited" /\ conns'[i] = {} /\ owner' # i)]_vars

C9_Witness ==
    \E i \in Instances :
        /\ pc[i] = "exited"
        /\ exit[i] = "0"
        /\ stdout[i] = <<LocalhostLine, BannerLine, InterruptLine>>

====
